---- MODULE Spec2Model ----
(***************************************************************************)
(* Transfer orchestration engine of nexus-terminal (TransfersService,      *)
(* src/unnamed/part_005).  One task is submitted, processed and possibly   *)
(* cancelled.  Every action is one run-to-completion segment of the        *)
(* single-threaded event loop: a public call, an I/O callback, or the      *)
(* promise continuation that follows a settled await.                      *)
(***************************************************************************)
EXTENDS Integers, Sequences, FiniteSets, TLC

(* ------------------------------ bounds -------------------------------- *)
MaxTargets == 2
MaxItems == 2
MaxSubTasks == 2
KTargets == 6
MaxRollup == 3

(* ------------------------- program constants -------------------------- *)
MAX_CONCURRENT_SUB_TASKS == 5

Undef == -1

OwnerId == 1
TaskId == 1
\* a second user and a second task id; an id that is never issued
OtherOwnerId == 2
OtherTaskId == 2
UnknownTaskId == 3

ExitCodes == {0, 2}
DataPercents == {40, 250}

\* what the command wrote to standard error by the time its stream closes
StreamErrors == {"stream broke"}
StderrTexts == {<<" ", "x", " ", "y", " ">>}

\* String.prototype.trim on the left end only
RECURSIVE TrimLeftOnly(_)
TrimLeftOnly(t) ==
  IF t # << >> /\ Head(t) = " " THEN TrimLeftOnly(Tail(t)) ELSE t

\* String.prototype.trim: whitespace removed from both ends
RECURSIVE Trim(_)
Trim(t) ==
  IF t = << >> THEN t
  ELSE IF Head(t) = " " THEN Trim(Tail(t))
  ELSE IF t[Len(t)] = " " THEN Trim(SubSeq(t, 1, Len(t) - 1))
  ELSE t

\* a status message: its fixed wording, and the exit code and the text built into it
NoMsg == [kind |-> "undefined", code |-> 0, text |-> << >>]
Msg(k) == [kind |-> k, code |-> 0, text |-> << >>]
MsgCode(k, c, t) == [kind |-> k, code |-> c, text |-> t]

SubFinal == {"completed", "failed", "cancelled"}
TaskFinal == {"completed", "failed", "partially-completed"}
AuthKinds == {"key", "keypass", "password", "key-nokey", "password-nopw"}

NoTask == [userId |-> 0, status |-> "none", overallProgress |-> Undef, subTasks |-> << >>]

\* no second entry in the maps; first: it was inserted before the entry of TaskId
NoOther == [task |-> NoTask, controller |-> FALSE, aborted |-> FALSE, first |-> FALSE]
\* no call has returned yet; task: the returned task (NoTask for null), list: the returned array
NoCall == [op |-> "none", tid |-> 0, uid |-> 0, task |-> NoTask, list |-> << >>, n |-> 0]

Max(a, b) == IF a > b THEN a ELSE b
Min(a, b) == IF a < b THEN a ELSE b

(* ---------------------- status roll-up (pure) ------------------------- *)
RECURSIVE CountStatus(_, _)
CountStatus(subs, set) ==
  IF subs = << >> THEN 0
  ELSE (IF Head(subs).status \in set THEN 1 ELSE 0) + CountStatus(Tail(subs), set)

SubProgressShare(st) ==
  IF st.status = "completed" THEN 100
  ELSE IF st.status \in {"transferring", "connecting"}
       THEN (IF st.progress # Undef THEN st.progress
             ELSE IF st.status = "connecting" THEN 5 ELSE 0)
       ELSE 0

RECURSIVE TotalProgress(_)
TotalProgress(subs) ==
  IF subs = << >> THEN 0 ELSE SubProgressShare(Head(subs)) + TotalProgress(Tail(subs))

\* Math.round(total / n) for non-negative operands
RoundDiv(total, n) == (2 * total + n) \div (2 * n)

\* roll-up that reports a mix of completed and failed sub-tasks as failed
RollupStatusCollapsed(subs) ==
  LET n == Len(subs)
      completedCount == CountStatus(subs, {"completed"})
      failedCount == CountStatus(subs, {"failed"})
      inProgressCount == CountStatus(subs, {"transferring", "connecting"})
      queuedCount == CountStatus(subs, {"queued"})
  IN IF failedCount = n THEN "failed"
     ELSE IF completedCount = n THEN "completed"
     ELSE IF failedCount > 0 /\ completedCount + failedCount = n THEN "failed"
     ELSE IF inProgressCount > 0 \/ (queuedCount > 0 /\ (failedCount > 0 \/ completedCount > 0))
          THEN "in-progress"
     ELSE IF queuedCount = n THEN "queued"
     ELSE IF completedCount > 0 /\ queuedCount > 0 /\ failedCount = 0 /\ inProgressCount = 0
          THEN "partially-completed"
          ELSE "in-progress"

\* roll-up whose in-progress row ignores queued sub-tasks next to finished ones
RollupStatusNoQueuedMix(subs) ==
  LET n == Len(subs)
      completedCount == CountStatus(subs, {"completed"})
      failedCount == CountStatus(subs, {"failed"})
      inProgressCount == CountStatus(subs, {"transferring", "connecting"})
      queuedCount == CountStatus(subs, {"queued"})
  IN IF failedCount = n THEN "failed"
     ELSE IF completedCount = n THEN "completed"
     ELSE IF failedCount > 0 /\ completedCount + failedCount = n THEN "partially-completed"
     ELSE IF inProgressCount > 0 THEN "in-progress"
     ELSE IF queuedCount = n THEN "queued"
     ELSE IF completedCount > 0 /\ queuedCount > 0 /\ failedCount = 0 /\ inProgressCount = 0
          THEN "partially-completed"
          ELSE "in-progress"

RollupStatus(subs) ==
  LET n == Len(subs)
      completedCount == CountStatus(subs, {"completed"})
      failedCount == CountStatus(subs, {"failed"})
      inProgressCount == CountStatus(subs, {"transferring", "connecting"})
      queuedCount == CountStatus(subs, {"queued"})
  IN IF failedCount = n THEN "failed"
     ELSE IF completedCount = n THEN "completed"
     ELSE IF failedCount > 0 /\ completedCount + failedCount = n THEN "partially-completed"
     ELSE IF inProgressCount > 0 \/ (queuedCount > 0 /\ (failedCount > 0 \/ completedCount > 0))
          THEN "in-progress"
     ELSE IF queuedCount = n THEN "queued"
     ELSE IF completedCount > 0 /\ queuedCount > 0 /\ failedCount = 0 /\ inProgressCount = 0
          THEN "partially-completed"
          ELSE "in-progress"

\* roll-up that keeps a final task status when the computed one is transient
updateOverallTaskStatusKeepsFinal(t) ==
  IF Len(t.subTasks) = 0 THEN [t EXCEPT !.overallProgress = 0]
  ELSE [t EXCEPT !.overallProgress = RoundDiv(TotalProgress(t.subTasks), Len(t.subTasks)),
                 !.status = IF /\ t.status \in {"completed", "failed", "partially-completed"}
                               /\ RollupStatus(t.subTasks) \in {"queued", "in-progress"}
                            THEN @ ELSE RollupStatus(t.subTasks)]

updateOverallTaskStatusBasedOnSubTasks(t) ==
  IF Len(t.subTasks) = 0 THEN [t EXCEPT !.overallProgress = 0]
  ELSE [t EXCEPT !.overallProgress = RoundDiv(TotalProgress(t.subTasks), Len(t.subTasks)),
                 !.status = RollupStatus(t.subTasks)]

updateOverallTaskStatus(t, newStatus) ==
  IF t.status \in TaskFinal /\ newStatus \in {"queued", "in-progress"} THEN t
  ELSE [t EXCEPT !.status = newStatus]

updateSubTaskStatus(t, i, newStatus, progress, message) ==
  LET st == t.subTasks[i] IN
  IF st.status \in {"completed", "failed"} /\ newStatus \notin {"completed", "failed"} THEN t
  ELSE LET st2 == [st EXCEPT !.status = newStatus,
                             !.progress = IF progress # Undef THEN Min(100, Max(0, progress)) ELSE @,
                             !.message = IF message # NoMsg THEN message ELSE @]
       IN updateOverallTaskStatusBasedOnSubTasks([t EXCEPT !.subTasks[i] = st2])

finalizeOverallTaskStatus(t) == updateOverallTaskStatusBasedOnSubTasks(t)

(* ------------------------------- state -------------------------------- *)
VARIABLES
  env,        \* what the remote hosts answer: tools on the source, target records
  payload,    \* the request that is submitted
  task,       \* transferTasks.get(TaskId), NoTask before submit
  controller, \* taskAbortControllers.has(TaskId)
  aborted,    \* signal.aborted
  procPc,     \* position of processTransferTask
  srcClient,  \* sourceSshClient: "none" | "connecting" | "open" | "closed"
  sched,      \* currentlyActiveSubTasks, currentSubTaskIndex, completion promise
  sub,        \* per sub-task execution: position and locals of the wrapper
  cancelRet,  \* last cancelTransferTask call: result, task id, caller, the status it saw,
              \* whether the task was known and owned by the caller, parity of the calls
  other,      \* a second entry of transferTasks and of taskAbortControllers
  callRet     \* what the last initiateNewTransfer / getTransferTaskDetails /
              \* getAllTransferTasks call returned, parity of the read calls

vars == <<env, payload, other, callRet, task, controller, aborted, procPc, srcClient, sched, sub,
          cancelRet>>

\* keys of transferTasks
SubmittedIds ==
  (IF task = NoTask THEN {} ELSE {TaskId}) \cup (IF other.task = NoTask THEN {} ELSE {OtherTaskId})

\* transferTasks.get(tid), NoTask for undefined
Lookup(tid) ==
  IF tid = TaskId THEN task ELSE IF tid = OtherTaskId THEN other.task ELSE NoTask

\* taskAbortControllers.get(tid) is defined
HasController(tid) ==
  IF tid = TaskId THEN controller ELSE tid = OtherTaskId /\ other.controller

NumSubTasks == Len(task.subTasks)
SubIds == 1..NumSubTasks

\* item: index in payload.sourceItems of currentSourceItem, 0 before it is looked up;
\* lateSftp: the key upload was rejected by its timer before client.sftp called back;
\* sshIdentityFileOption, sshPassCommand: the two credential fields of cmdOptions are set
NoLocals == [pc |-> "idle", item |-> 0, auth |-> "none", sshpass |-> FALSE, rsyncSrc |-> FALSE,
             scpSrc |-> FALSE, keyPath |-> FALSE, keyOnHost |-> FALSE, lateSftp |-> FALSE,
             sshIdentityFileOption |-> FALSE, sshPassCommand |-> FALSE,
             stream |-> "none", exit |-> Undef, stderr |-> << >>, after |-> "none"]

\* expansion that stops one pair short
RECURSIVE CrossProductDropLast(_, _, _)
CrossProductDropLast(conns, items, k) ==
  IF k >= Len(conns) * Len(items) THEN << >>
  ELSE <<[connectionId |-> conns[((k - 1) \div Len(items)) + 1],
          sourceItemName |-> items[((k - 1) % Len(items)) + 1].name,
          status |-> "queued", progress |-> Undef, message |-> NoMsg,
          transferMethodUsed |-> "none"]>> \o CrossProductDropLast(conns, items, k + 1)

\* initiateNewTransfer: one sub-task per (target, item), targets outermost
RECURSIVE CrossProduct(_, _, _)
CrossProduct(conns, items, k) ==
  IF k > Len(conns) * Len(items) THEN << >>
  ELSE <<[connectionId |-> conns[((k - 1) \div Len(items)) + 1],
          sourceItemName |-> items[((k - 1) % Len(items)) + 1].name,
          status |-> "queued", progress |-> Undef, message |-> NoMsg,
          transferMethodUsed |-> "none"]>> \o CrossProduct(conns, items, k + 1)

(* ------------- operators on the bundle [task, sched, sub] ------------- *)
\* updateSubTaskStatus on the task of the bundle; the bundle is evaluated once
Upd(M, i, st, p, m) ==
  LET Apply(mv) == [mv EXCEPT !.task = updateSubTaskStatus(mv.task, i, st, p, m)]
  IN CHOOSE r \in {Apply(mv) : mv \in {M}} : TRUE

resolveAllTasksCompleted(M) ==
  IF M.sched.promise = "pending" THEN [M EXCEPT !.sched.promise = "resolved"] ELSE M

\* sourceItems.find(it => it.name === name): index of the first item of that
\* name, 0 if there is none
FindItem(items, name) ==
  LET idx == {k \in DOMAIN items : items[k].name = name}
  IN IF idx = {} THEN 0 ELSE CHOOSE k \in idx : \A j \in idx : k <= j

\* processSingleSubTaskWrapper up to its first await
StartWrapper(M, i, ab) ==
  LET found == FindItem(payload.sourceItems, M.task.subTasks[i].sourceItemName) IN
  IF ab
  THEN [Upd(M, i, "cancelled", Undef, Msg("Cancelled before start."))
          EXCEPT !.sub[i].pc = "returned"]
  ELSE IF found = 0
  THEN [Upd(M, i, "failed", Undef, Msg("Source item not found in payload"))
          EXCEPT !.sub[i].pc = "returned"]
  ELSE [Upd(M, i, "connecting", Undef, Msg("Preparing transfer"))
          EXCEPT !.sub[i].pc = "t_lookup", !.sub[i].item = found]

\* launch loop that admits one execution beyond the limit
RECURSIVE LaunchLoopOffByOne(_, _)
LaunchLoopOffByOne(M, ab) ==
  LET total == Len(M.task.subTasks)
      idx == M.sched.index + 1
  IN IF M.sched.active <= MAX_CONCURRENT_SUB_TASKS /\ M.sched.index < total
     THEN IF M.task.subTasks[idx].status = "cancelled"
          THEN LaunchLoopOffByOne([M EXCEPT !.sched.index = @ + 1], ab)
          ELSE LET M1 == [M EXCEPT !.sched.active = @ + 1, !.sched.index = @ + 1]
               IN LaunchLoopOffByOne(StartWrapper(M1, idx, ab), ab)
     ELSE IF M.sched.index = total /\ M.sched.active = 0 /\ ~ab
          THEN resolveAllTasksCompleted(M) ELSE M

\* launch step that starts at most one sub-task per call
LaunchLoopSingle(M, ab) ==
  LET total == Len(M.task.subTasks)
      idx == M.sched.index + 1
  IN IF M.sched.active < MAX_CONCURRENT_SUB_TASKS /\ M.sched.index < total
     THEN IF M.task.subTasks[idx].status = "cancelled"
          THEN LET M1 == [M EXCEPT !.sched.index = @ + 1]
               IN IF M1.sched.index = total /\ M1.sched.active = 0
                  THEN resolveAllTasksCompleted(M1) ELSE M1
          ELSE StartWrapper([M EXCEPT !.sched.active = @ + 1, !.sched.index = @ + 1], idx, ab)
     ELSE IF M.sched.index = total /\ M.sched.active = 0 /\ ~ab
          THEN resolveAllTasksCompleted(M) ELSE M

RECURSIVE LaunchLoop(_, _)
LaunchLoop(M, ab) ==
  LET total == Len(M.task.subTasks)
      idx == M.sched.index + 1
  IN IF M.sched.active < MAX_CONCURRENT_SUB_TASKS /\ M.sched.index < total
     THEN IF M.task.subTasks[idx].status = "cancelled"
          THEN LET M1 == [M EXCEPT !.sched.index = @ + 1]
                   M2 == IF M1.sched.index = total /\ M1.sched.active = 0
                         THEN resolveAllTasksCompleted(M1) ELSE M1
               IN LaunchLoop(M2, ab)
          ELSE LET M1 == [M EXCEPT !.sched.active = @ + 1, !.sched.index = @ + 1]
               IN LaunchLoop(StartWrapper(M1, idx, ab), ab)
     ELSE IF M.sched.index = total /\ M.sched.active = 0 /\ ~ab
          THEN resolveAllTasksCompleted(M) ELSE M

launchNextSubTaskIfPossible(M, ab) ==
  IF ab THEN (IF M.sched.active = 0 THEN resolveAllTasksCompleted(M) ELSE M)
  ELSE LaunchLoop(M, ab)

\* the wrapper's promise settles: its locals are gone, what it left on the
\* source host (key file, pending sftp request, command stream and what the
\* stream delivered) stays
Returned(M, i) ==
  [M EXCEPT !.sub[i] = [NoLocals EXCEPT !.pc = "returned", !.keyOnHost = M.sub[i].keyOnHost,
                                        !.lateSftp = M.sub[i].lateSftp,
                                        !.stream = M.sub[i].stream, !.exit = M.sub[i].exit,
                                        !.stderr = M.sub[i].stderr]]

\* catch block of processSingleSubTaskWrapper, then the wrapper returns
WrapperEnd(M, i, kind, m) ==
  LET M1 == IF kind = "abort"
            THEN Upd(M, i, "cancelled", Undef, Msg("Sub-task cancelled by user."))
            ELSE IF kind = "error" /\ M.task.subTasks[i].status \notin SubFinal
            THEN Upd(M, i, "failed", Undef, m)
            ELSE M
  IN Returned(M1, i)

\* catch block whose error also rejects the scheduler's completion promise
ExecEndRejectsScheduler(M, i, kind, m) ==
  LET M1 == IF kind = "abort"
            THEN (IF M.task.subTasks[i].status # "cancelled"
                  THEN Upd(M, i, "cancelled", Undef, m) ELSE M)
            ELSE IF kind = "error"
            THEN [Upd(M, i, "failed", Undef, m) EXCEPT !.sched.promise = "rejected"]
            ELSE M
  IN IF M1.sub[i].keyPath
     THEN [M1 EXCEPT !.sub[i].pc = "del", !.sub[i].after = kind]
     ELSE WrapperEnd(M1, i, kind, m)

\* catch and finally blocks of executeRemoteTransferOnSource
ExecEnd(M, i, kind, m) ==
  LET M1 == IF kind = "abort"
            THEN (IF M.task.subTasks[i].status # "cancelled"
                  THEN Upd(M, i, "cancelled", Undef, m) ELSE M)
            ELSE IF kind = "error" THEN Upd(M, i, "failed", Undef, m)
            ELSE M
  IN IF M1.sub[i].keyPath
     THEN [M1 EXCEPT !.sub[i].pc = "del", !.sub[i].after = kind]
     ELSE WrapperEnd(M1, i, kind, m)

\* catch and finally blocks that skip the key removal after an abort
ExecAbortNoCleanup(M, i, m) ==
  LET M1 == IF M.task.subTasks[i].status # "cancelled"
            THEN Upd(M, i, "cancelled", Undef, m) ELSE M
  IN [M1 EXCEPT !.sub[i].pc = "abort_wrap"]

\* catch and finally blocks of executeRemoteTransferOnSource for the AbortError
\* of an abort listener: the promise stays pending for the key removal, or it
\* rejects and the wrapper's catch block is queued
ExecAbort(M, i, m) ==
  LET M1 == IF M.task.subTasks[i].status # "cancelled"
            THEN Upd(M, i, "cancelled", Undef, m) ELSE M
  IN IF M1.sub[i].keyPath
     THEN [M1 EXCEPT !.sub[i].pc = "del", !.sub[i].after = "abort"]
     ELSE [M1 EXCEPT !.sub[i].pc = "abort_wrap"]

StartCmd(M, i) ==
  [Upd(M, i, "transferring", 10, Msg("Executing"))
     EXCEPT !.sub[i].pc = "cmd", !.sub[i].stream = "pending"]

\* credential step of executeRemoteTransferOnSource
Cred(M, i) ==
  LET a == M.sub[i].auth IN
  IF a \in {"key", "keypass"}
  THEN [M EXCEPT !.sub[i].keyPath = TRUE, !.sub[i].pc = "upload"]
  ELSE IF a = "password"
  THEN (IF ~M.sub[i].sshpass
        THEN ExecEnd(M, i, "error", Msg("password auth, sshpass not available"))
        ELSE StartCmd([M EXCEPT !.sub[i].sshPassCommand = TRUE], i))
  ELSE IF a = "key-nokey"
  THEN ExecEnd(M, i, "error", Msg("key-based but no private key"))
  ELSE StartCmd(M, i)

\* tool chosen: progress 5 and 6, then the mkdir connection to the target is opened
AfterTool(M, i, tool) ==
  LET M1 == Upd(M, i, "transferring", 5, Msg("Using tool"))
      M2 == [M1 EXCEPT !.task.subTasks[i].transferMethodUsed = tool]
      M3 == Upd(M2, i, "transferring", 6, Msg("Ensuring target directory"))
  IN [M3 EXCEPT !.sub[i].pc = "mkdir"]

\* tool selection after the three probes on the source
Decide(M, i, method) ==
  IF method = "auto"
  THEN IF M.sub[i].rsyncSrc THEN [M EXCEPT !.sub[i].pc = "t_check"]
       ELSE IF M.sub[i].scpSrc THEN AfterTool(M, i, "scp")
       ELSE ExecEnd(M, i, "error", Msg("Neither Rsync nor SCP available on source"))
  ELSE IF method = "rsync"
  THEN IF ~M.sub[i].rsyncSrc
       THEN ExecEnd(M, i, "error", Msg("Rsync preferred but not available on source"))
       ELSE [M EXCEPT !.sub[i].pc = "t_check"]
  ELSE IF ~M.sub[i].scpSrc
       THEN ExecEnd(M, i, "error", Msg("SCP preferred but not available on source"))
       ELSE AfterTool(M, i, "scp")

\* tool selection that takes rsync whatever the check on the target found
DecideAfterTargetIgnoresTarget(M, i, method, rsyncOnTarget) ==
  AfterTool(M, i, "rsync")

\* tool selection after the rsync check on the target
DecideAfterTarget(M, i, method, rsyncOnTarget) ==
  IF method = "auto"
  THEN IF rsyncOnTarget THEN AfterTool(M, i, "rsync")
       ELSE IF M.sub[i].scpSrc THEN AfterTool(M, i, "scp")
       ELSE ExecEnd(M, i, "error", Msg("Neither Rsync nor SCP available on source"))
  ELSE IF ~rsyncOnTarget
       THEN ExecEnd(M, i, "error", Msg("Rsync preferred, but not available on target"))
       ELSE AfterTool(M, i, "rsync")

Cur == [task |-> task, sched |-> sched, sub |-> sub]
Set(M) == task' = M.task /\ sched' = M.sched /\ sub' = M.sub

(* ------------------------ event-loop scheduling ----------------------- *)
\* a settled await whose continuation has not run yet
ProcMicro == procPc \in {"abort_mt", "finally"}
SubMicro ==
  \E i \in DOMAIN sub : sub[i].pc \in {"abort_mkdir", "abort_cmd", "abort_wrap", "returned"}
\* continuations queued by the abort listeners and those they queue in turn run
\* in the order they were queued: the catch blocks of executeRemoteTransferOnSource,
\* then the catch blocks of the wrappers, then the .finally callbacks
ExecCatchPending == \E i \in DOMAIN sub : sub[i].pc \in {"abort_mkdir", "abort_cmd"}
WrapperCatchPending == \E i \in DOMAIN sub : sub[i].pc = "abort_wrap"
\* the microtask queue is empty: the next callback or request may run
LoopIdle == ~ProcMicro /\ ~SubMicro

(* ------------------------------ requests ------------------------------ *)
ConnSeq(n) == [k \in 1..n |-> k]
ItemSeq(n) == [k \in 1..n |-> [name |-> k, path |-> k, type |-> "file"]]

Requests(maxT, maxI, maxSub, methods) ==
  {[connectionIds |-> ConnSeq(t), sourceItems |-> ItemSeq(n), transferMethod |-> m] :
     <<t, n, m>> \in {x \in (0..maxT) \X (0..maxI) \X methods : x[1] * x[2] <= maxSub}}

SourceTools(sp, rs, sc) == [sshpass |-> sp, rsync |-> rs, scp |-> sc]
Target(f, a, r) == [found |-> f, auth |-> a, rsync |-> r]

\* odd targets: password auth, no rsync (scp is used); even targets: key auth, rsync
MainTargets(n) ==
  [k \in 1..n |-> IF k % 2 = 1 THEN Target("ok", "password", FALSE)
                  ELSE Target("ok", "key", TRUE)]

InitRest ==
  /\ task = NoTask
  /\ controller = FALSE
  /\ aborted = FALSE
  /\ procPc = "none"
  /\ srcClient = "none"
  /\ sched = [active |-> 0, index |-> 0, promise |-> "none"]
  /\ sub = << >>
  /\ cancelRet = [ret |-> "none", tid |-> 0, uid |-> 0, before |-> "none", known |-> FALSE, n |-> 0]
  /\ other = NoOther
  /\ callRet = NoCall

Init ==
  /\ payload \in Requests(MaxTargets, MaxItems, MaxSubTasks, {"auto"})
  /\ env = [src |-> SourceTools(TRUE, TRUE, TRUE),
            targets |-> MainTargets(Len(payload.connectionIds))]
  /\ InitRest

(* --------------------------- public calls ----------------------------- *)
\* initiateNewTransfer, including processTransferTask up to its first await
Submit ==
  /\ task = NoTask
  /\ LET subTasks == CrossProduct(payload.connectionIds, payload.sourceItems, 1)
         newTask == [userId |-> OwnerId, status |-> "queued", overallProgress |-> Undef,
                     subTasks |-> subTasks]
     IN /\ task' = updateOverallTaskStatus(newTask, "in-progress")
        /\ sub' = [i \in 1..Len(subTasks) |-> NoLocals]
        \* return { ...newTask }: a copy of the registered object, made after
        \* processTransferTask has run up to its first await
        /\ callRet' = [NoCall EXCEPT !.op = "submit", !.tid = TaskId, !.uid = OwnerId,
                                     !.task = task', !.n = callRet.n]
  /\ controller' = TRUE
  /\ procPc' = "src_lookup"
  /\ UNCHANGED <<env, payload, other, aborted, srcClient, sched, cancelRet>>

\* forEach that leaves the sub-tasks that were not launched yet as they are
RECURSIVE CancelSubTasksInFlightOnly(_, _)
CancelSubTasksInFlightOnly(t, i) ==
  IF i > Len(t.subTasks) THEN t
  ELSE LET st == t.subTasks[i]
           t1 == IF st.status \notin SubFinal \cup {"queued"}
                 THEN updateSubTaskStatus(t, i, "cancelled", st.progress,
                                          Msg("Cancelled due to parent task cancellation."))
                 ELSE t
       IN CancelSubTasksInFlightOnly(t1, i + 1)

RECURSIVE CancelSubTasks(_, _)
CancelSubTasks(t, i) ==
  IF i > Len(t.subTasks) THEN t
  ELSE LET st == t.subTasks[i]
           t1 == IF st.status \notin SubFinal
                 THEN updateSubTaskStatus(t, i, "cancelled", st.progress,
                                          Msg("Cancelled due to parent task cancellation."))
                 ELSE t
       IN CancelSubTasks(t1, i + 1)

\* what a cancelTransferTask call that finds the controller does to the task
CancelUpdates(t) ==
  LET t1 == IF t.status \notin {"completed", "failed", "cancelled"}
            THEN updateOverallTaskStatus(t, "cancelling") ELSE t
  IN CancelSubTasks(t1, 1)

\* lookup that does not compare the owner with the caller
KnownAnyOwner(tid, uid) == Lookup(tid) # NoTask

\* the task is in the registry under this id and belongs to the caller
KnownAndOwned(tid, uid) == Lookup(tid) # NoTask /\ Lookup(tid).userId = uid

\* cancelTransferTask; abort() runs the registered listeners synchronously
cancelTransferTask(tid, uid) ==
  /\ LoopIdle
  /\ IF ~KnownAndOwned(tid, uid) \/ ~HasController(tid)
     THEN /\ cancelRet' = [ret |-> "false", tid |-> tid, uid |-> uid, before |-> "none",
                           known |-> KnownAndOwned(tid, uid), n |-> 1 - cancelRet.n]
          /\ UNCHANGED <<task, aborted, procPc, srcClient, sched, sub, other>>
     ELSE IF tid = OtherTaskId
     THEN \* the second task is awaiting its source lookup: no listener is registered
          /\ other' = [other EXCEPT !.task = CancelUpdates(other.task), !.aborted = TRUE]
          /\ cancelRet' = [ret |-> "true", tid |-> tid, uid |-> uid, before |-> other.task.status, known |-> TRUE,
                           n |-> 1 - cancelRet.n]
          /\ UNCHANGED <<task, aborted, procPc, srcClient, sched, sub>>
     ELSE LET fire == ~aborted
          IN /\ aborted' = TRUE
             /\ procPc' = IF fire /\ procPc \in {"src_connect", "sched"}
                          THEN "abort_mt" ELSE procPc
             /\ srcClient' = IF fire /\ procPc = "src_connect" THEN "closed" ELSE srcClient
             /\ sched' = IF fire /\ procPc = "sched"
                         THEN [sched EXCEPT !.promise = "rejected"] ELSE sched
             /\ sub' = [i \in DOMAIN sub |->
                          IF fire /\ sub[i].pc = "mkdir" THEN [sub[i] EXCEPT !.pc = "abort_mkdir"]
                          ELSE IF fire /\ sub[i].pc = "cmd" THEN [sub[i] EXCEPT !.pc = "abort_cmd"]
                          ELSE sub[i]]
             /\ task' = CancelUpdates(task)
             /\ cancelRet' = [ret |-> "true", tid |-> tid, uid |-> uid, before |-> task.status, known |-> TRUE,
                              n |-> 1 - cancelRet.n]
             /\ UNCHANGED other
  /\ UNCHANGED <<env, payload, callRet, controller>>

(* ------------------------ processTransferTask ------------------------- *)
\* catch block of processTransferTask; the finally block runs next
ProcCatch(thrown) ==
  /\ task' = IF thrown = "abort" THEN updateOverallTaskStatus(task, "cancelled")
             ELSE updateOverallTaskStatus(task, "failed")
  /\ procPc' = "finally"

\* getConnectionWithDecryptedCredentials(sourceConnectionId) returns
SrcLookupReturn(found) ==
  /\ procPc = "src_lookup"
  /\ LoopIdle
  /\ IF aborted THEN ProcCatch("abort") /\ UNCHANGED srcClient
     ELSE IF ~found THEN ProcCatch("error") /\ UNCHANGED srcClient
     ELSE /\ srcClient' = "connecting"
          /\ procPc' = "src_connect"
          /\ UNCHANGED task
  /\ UNCHANGED <<env, payload, other, callRet, controller, aborted, sched, sub, cancelRet>>

\* getConnectionWithDecryptedCredentials(sourceConnectionId) rejects: the catch
\* block is entered with that error, whether or not the signal is aborted
SrcLookupReject ==
  /\ procPc = "src_lookup"
  /\ LoopIdle
  /\ ProcCatch("error")
  /\ UNCHANGED <<env, payload, other, callRet, controller, aborted, srcClient, sched, sub,
                 cancelRet>>

\* 'close' of the source client before 'ready' or 'error': the handler removes
\* the abort listener and settles nothing, the connect promise stays pending
SrcClose ==
  /\ procPc = "src_connect"
  /\ LoopIdle
  /\ procPc' = "src_closed"
  /\ UNCHANGED <<env, payload, other, callRet, controller, aborted, srcClient, task, sched, sub,
                 cancelRet>>

\* 'ready' of the source connection, then the abort check and the scheduler set-up
SrcReady ==
  /\ procPc \in {"src_connect", "src_closed"}
  /\ LoopIdle
  /\ srcClient' = "open"
  /\ IF aborted
     THEN /\ ProcCatch("abort")
          /\ UNCHANGED <<sched, sub>>
     ELSE IF NumSubTasks = 0
     THEN /\ sched' = [sched EXCEPT !.promise = "resolved"]
          /\ procPc' = "finally"
          /\ UNCHANGED <<task, sub>>
     ELSE LET M == launchNextSubTaskIfPossible(
                     [Cur EXCEPT !.sched.promise = "pending"], aborted)
          IN /\ Set(M)
             /\ procPc' = IF M.sched.promise = "resolved" THEN "finally" ELSE "sched"
  /\ UNCHANGED <<env, payload, other, callRet, controller, aborted, cancelRet>>

\* 'error' of the source connection
SrcError ==
  /\ procPc \in {"src_connect", "src_closed"}
  /\ LoopIdle
  /\ ProcCatch("error")
  /\ UNCHANGED <<env, payload, other, callRet, controller, aborted, srcClient, sched, sub, cancelRet>>

\* continuation after the awaited promise was rejected by an abort listener
ProcAbort ==
  /\ procPc = "abort_mt"
  /\ ProcCatch("abort")
  /\ UNCHANGED <<env, payload, other, callRet, controller, aborted, srcClient, sched, sub, cancelRet>>

\* finally block of processTransferTask
ProcFinally ==
  /\ procPc = "finally"
  /\ srcClient' = IF srcClient = "none" THEN "none" ELSE "closed"
  /\ task' = finalizeOverallTaskStatus(task)
  /\ controller' = FALSE
  /\ procPc' = "done"
  /\ UNCHANGED <<env, payload, other, callRet, aborted, sched, sub, cancelRet>>

(* ----------------------- sub-task execution --------------------------- *)
Others == <<env, payload, other, callRet, controller, aborted, procPc, srcClient, cancelRet>>

TargetOf(i) == env.targets[task.subTasks[i].connectionId]

\* getConnectionWithDecryptedCredentials(subTask.connectionId) returns;
\* executeRemoteTransferOnSource runs up to the first probe
TargetLookupReturn(i) ==
  /\ sub[i].pc = "t_lookup"
  /\ LoopIdle
  /\ LET tg == TargetOf(i) IN
     IF tg.found = "error"
     THEN Set(WrapperEnd(Cur, i, "error", Msg("target lookup failed")))
     ELSE IF aborted
     THEN Set(WrapperEnd(Cur, i, "abort", NoMsg))
     ELSE IF tg.found = "missing"
     THEN Set(Returned(Upd(Cur, i, "failed", Undef, Msg("Target connection not found")), i))
     ELSE Set([Upd(Cur, i, "transferring", 0, Msg("Initializing remote transfer"))
                 EXCEPT !.sub[i].pc = "probe_sshpass", !.sub[i].auth = tg.auth])
  /\ UNCHANGED Others

\* checkCommandOnSource resolves: the tool's path, or null (also when exec fails)
ProbeReturn(i) ==
  /\ sub[i].pc \in {"probe_sshpass", "probe_rsync", "probe_scp"}
  /\ LoopIdle
  /\ LET open == srcClient = "open"
         M1 == IF sub[i].pc = "probe_sshpass"
               THEN [Cur EXCEPT !.sub[i].sshpass = open /\ env.src.sshpass]
               ELSE IF sub[i].pc = "probe_rsync"
               THEN [Cur EXCEPT !.sub[i].rsyncSrc = open /\ env.src.rsync]
               ELSE [Cur EXCEPT !.sub[i].scpSrc = open /\ env.src.scp]
     IN IF aborted
        THEN Set(ExecEnd(M1, i, "abort", Msg("Transfer cancelled by user.")))
        ELSE IF sub[i].pc = "probe_sshpass" THEN Set([M1 EXCEPT !.sub[i].pc = "probe_rsync"])
        ELSE IF sub[i].pc = "probe_rsync" THEN Set([M1 EXCEPT !.sub[i].pc = "probe_scp"])
        ELSE Set(Decide(M1, i, payload.transferMethod))
  /\ UNCHANGED Others

\* checkCommandOnTargetServer(rsync) resolves
TargetCheckReturn(i) ==
  /\ sub[i].pc = "t_check"
  /\ LoopIdle
  /\ IF aborted
     THEN Set(ExecEnd(Cur, i, "abort", Msg("Transfer cancelled by user.")))
     ELSE Set(DecideAfterTarget(Cur, i, payload.transferMethod, TargetOf(i).rsync))
  /\ UNCHANGED Others

\* mkdir handling that marks the failure and goes on to the credential step
MkdirReturnIgnoresFailure(i, ok) ==
  /\ sub[i].pc \in {"mkdir", "mkdir_closed"}
  /\ LoopIdle
  /\ IF ok
     THEN Set(Cred(Upd(Cur, i, "transferring", 8, Msg("Target directory ensured")), i))
     ELSE Set(Cred(Upd(Cur, i, "failed", Undef, Msg("Failed to create target directory")), i))
  /\ UNCHANGED Others

\* 'close' of the mkdir client before its promise settled: the handler removes
\* the abort listener and settles nothing
MkdirClose(i) ==
  /\ sub[i].pc = "mkdir"
  /\ LoopIdle
  /\ sub' = [sub EXCEPT ![i].pc = "mkdir_closed"]
  /\ UNCHANGED <<task, sched>>
  /\ UNCHANGED Others

\* the mkdir -p on the target ends: exit code 0, or any failure; after a cancel
\* that found no listener the 'ready' handler or the check after the await throws
MkdirReturn(i, ok) ==
  /\ sub[i].pc \in {"mkdir", "mkdir_closed"}
  /\ LoopIdle
  /\ IF ok /\ aborted
     THEN Set(ExecEnd(Upd(Cur, i, "cancelled", Undef, Msg("Directory creation cancelled")),
                      i, "abort", Msg("Transfer cancelled by user.")))
     ELSE IF ok
     THEN Set(Cred(Upd(Cur, i, "transferring", 8, Msg("Target directory ensured")), i))
     ELSE Set(ExecEnd(Upd(Cur, i, "failed", Undef, Msg("Failed to create target directory")),
                      i, "error", Msg("Failed to create target directory")))
  /\ UNCHANGED Others

\* continuation after onAbortMkdir rejected the mkdir promise
AbortMkdir(i) ==
  /\ sub[i].pc = "abort_mkdir"
  /\ ~ProcMicro
  /\ Set(ExecAbort(Upd(Cur, i, "cancelled", Undef, Msg("Directory creation cancelled")),
                   i, Msg("Mkdir operation cancelled by user.")))
  /\ UNCHANGED Others

\* catch block of the wrapper, queued when executeRemoteTransferOnSource
\* rejected with the AbortError of an abort listener
WrapperCatch(i) ==
  /\ sub[i].pc = "abort_wrap"
  /\ ~ProcMicro /\ ~ExecCatchPending
  /\ Set(WrapperEnd(Cur, i, "abort", NoMsg))
  /\ UNCHANGED Others

\* uploadKeyToSourceViaSftp settles: written and closed, or error / 30 s timeout
UploadReturn(i, ok, left) ==
  /\ sub[i].pc = "upload"
  /\ LoopIdle
  /\ ok => srcClient = "open" /\ left
  /\ LET M1 == [Cur EXCEPT !.sub[i].keyOnHost = left]
         M2 == [M1 EXCEPT !.sub[i].sshIdentityFileOption = TRUE]
     IN
     IF ~ok THEN Set(ExecEnd(M1, i, "error", Msg("key upload failed")))
     ELSE IF aborted THEN Set(ExecEnd(M1, i, "abort", Msg("Transfer cancelled by user.")))
     ELSE IF sub[i].auth = "keypass" /\ ~sub[i].sshpass
     THEN Set(ExecEnd(M2, i, "error", Msg("key has passphrase, sshpass not available")))
     ELSE Set(StartCmd([M2 EXCEPT !.sub[i].sshPassCommand = (sub[i].auth = "keypass")], i))
  /\ UNCHANGED Others

\* the 30 s timer of the key upload fires before client.sftp called back:
\* sftpSession is still null, the promise is rejected, the request stays pending
UploadTimerFirst(i) ==
  /\ sub[i].pc = "upload"
  /\ LoopIdle
  /\ Set(ExecEnd([Cur EXCEPT !.sub[i].lateSftp = TRUE], i, "error", Msg("key upload failed")))
  /\ UNCHANGED Others

\* client.sftp calls back after the timer rejected the upload: with a session the
\* write stream is created and the key written, with an error nothing is written
UploadLateSftp(i, wrote) ==
  /\ sub[i].lateSftp
  /\ LoopIdle
  /\ wrote => srcClient = "open"
  /\ sub' = [sub EXCEPT ![i].lateSftp = FALSE, ![i].keyOnHost = IF wrote THEN TRUE ELSE @]
  /\ UNCHANGED <<task, sched>>
  /\ UNCHANGED Others

\* callback of sourceSshClient.exec(commandToExecute)
CmdExecCallback(i, err) ==
  /\ sub[i].stream = "pending"
  /\ LoopIdle
  /\ err \/ srcClient = "open"
  /\ IF aborted THEN Set([Cur EXCEPT !.sub[i].stream = "none"])
     ELSE IF err
     THEN IF sub[i].pc = "cmd"
          THEN Set(ExecEnd([Cur EXCEPT !.sub[i].stream = "none"], i, "error",
                           Msg("Failed to execute command")))
          ELSE Set([Cur EXCEPT !.sub[i].stream = "none"])
     ELSE Set([Cur EXCEPT !.sub[i].stream = "open"])
  /\ UNCHANGED Others

\* 'data' handler without the signal.aborted check
CmdDataNoAbortCheck(i, pct) ==
  /\ sub[i].stream = "open"
  /\ LoopIdle
  /\ IF task.subTasks[i].transferMethodUsed = "rsync"
     THEN Set(Upd(Cur, i, "transferring", pct, NoMsg))
     ELSE Set(Upd(Cur, i, "transferring", 50, Msg("SCP in progress...")))
  /\ UNCHANGED Others

\* stream 'data': a percentage parsed from rsync output, or the fixed scp value
CmdData(i, pct) ==
  /\ sub[i].stream = "open"
  /\ LoopIdle
  /\ IF aborted THEN UNCHANGED <<task, sched, sub>>
     ELSE IF task.subTasks[i].transferMethodUsed = "rsync"
     THEN Set(Upd(Cur, i, "transferring", pct, NoMsg))
     ELSE Set(Upd(Cur, i, "transferring", 50, Msg("SCP in progress...")))
  /\ UNCHANGED Others

\* 'close' handler that completes the sub-task without a progress value
CmdCloseKeepsProgress(i, code, stderrCombined) ==
  /\ sub[i].stream = "open"
  /\ LoopIdle
  /\ code = 0 => srcClient = "open"
  /\ LET M1 == [Cur EXCEPT !.sub[i].stream = "closed", !.sub[i].exit = code,
                           !.sub[i].stderr = stderrCombined] IN
     IF aborted THEN Set(M1)
     ELSE IF code = 0
     THEN LET M2 == Upd(M1, i, "completed", Undef, Msg("successful")) IN
          IF sub[i].pc = "cmd" THEN Set(ExecEnd(M2, i, "ok", NoMsg)) ELSE Set(M2)
     ELSE IF sub[i].pc = "cmd"
          THEN Set(ExecEnd(M1, i, "error",
                           MsgCode("failed. Code, Stderr", code, Trim(stderrCombined))))
          ELSE Set(M1)
  /\ UNCHANGED Others

\* stream 'close' with an exit code; an exit status of 0 is only received
\* while the control connection is open
CmdClose(i, code, stderrCombined) ==
  /\ sub[i].stream = "open"
  /\ LoopIdle
  /\ code = 0 => srcClient = "open"
  /\ LET M1 == [Cur EXCEPT !.sub[i].stream = "closed", !.sub[i].exit = code,
                           !.sub[i].stderr = stderrCombined] IN
     IF aborted THEN Set(M1)
     ELSE IF code = 0
     THEN LET M2 == Upd(M1, i, "completed", 100, Msg("successful")) IN
          IF sub[i].pc = "cmd" THEN Set(ExecEnd(M2, i, "ok", NoMsg)) ELSE Set(M2)
     ELSE IF sub[i].pc = "cmd"
          THEN Set(ExecEnd(M1, i, "error",
                           MsgCode("failed. Code, Stderr", code, Trim(stderrCombined))))
          ELSE Set(M1)
  /\ UNCHANGED Others

\* stream 'error': the command promise is rejected with the stream's error (with
\* an AbortError if the signal is aborted and the error says the stream closed);
\* no 'close' has been emitted
CmdStreamError(i, text) ==
  /\ sub[i].stream = "open"
  /\ LoopIdle
  /\ IF sub[i].pc # "cmd" THEN UNCHANGED <<task, sched, sub>>
     ELSE IF aborted /\ text = "closed"
     THEN Set(ExecEnd(Cur, i, "abort", Msg("Command stream error due to cancellation.")))
     ELSE Set(ExecEnd(Cur, i, "error", Msg(text)))
  /\ UNCHANGED Others

\* the 5 min timer of the command fires while the command promise is pending
CmdTimeout(i) ==
  /\ sub[i].pc = "cmd"
  /\ LoopIdle
  /\ Set(ExecEnd(Cur, i, "error", Msg("command timed out")))
  /\ UNCHANGED Others

\* continuation after onAbortCmd rejected the command promise
AbortCmd(i) ==
  /\ sub[i].pc = "abort_cmd"
  /\ ~ProcMicro
  /\ Set(ExecAbort(Cur, i, Msg("Command cancelled by user.")))
  /\ UNCHANGED Others

\* deleteFileOnSourceViaSftp settles: the file was unlinked, or the sftp session or
\* the unlink failed (the finally block only warns); then
\* executeRemoteTransferOnSource returns or rethrows
DeleteReturn(i, ok) ==
  /\ sub[i].pc = "del"
  /\ LoopIdle
  /\ ok => srcClient = "open"
  /\ LET M1 == IF ok THEN [Cur EXCEPT !.sub[i].keyOnHost = FALSE] ELSE Cur IN
     IF sub[i].after = "ok" THEN Set(Returned(M1, i))
     ELSE Set(WrapperEnd(M1, i, sub[i].after, NoMsg))
  /\ UNCHANGED Others

\* .finally callback that frees the slot without launching the next sub-task
SchedFinallyNoRelaunch(i) ==
  /\ sub[i].pc = "returned"
  /\ ~ProcMicro /\ ~ExecCatchPending /\ ~WrapperCatchPending
  /\ LET M1 == [Cur EXCEPT !.sched.active = @ - 1, !.sub[i].pc = "done"]
         M2 == IF M1.sched.active = 0 THEN resolveAllTasksCompleted(M1) ELSE M1
     IN /\ Set(M2)
        /\ procPc' = IF M2.sched.promise = "resolved" /\ sched.promise = "pending"
                     THEN "finally" ELSE procPc
  /\ UNCHANGED <<env, payload, other, callRet, controller, aborted, srcClient, cancelRet>>

\* .finally callback that hands the freed slot to the next sub-task of the
\* list without looking at the signal or at the sub-task's status
SchedFinallyLaunchAfterAbort(i) ==
  /\ sub[i].pc = "returned"
  /\ ~ProcMicro /\ ~ExecCatchPending /\ ~WrapperCatchPending
  /\ LET M1 == [Cur EXCEPT !.sched.active = @ - 1, !.sub[i].pc = "done"]
         M2 == IF M1.sched.index < NumSubTasks
               THEN StartWrapper([M1 EXCEPT !.sched.active = @ + 1, !.sched.index = @ + 1],
                                 M1.sched.index + 1, FALSE)
               ELSE IF M1.sched.active = 0 THEN resolveAllTasksCompleted(M1)
               ELSE M1
     IN /\ Set(M2)
        /\ procPc' = IF M2.sched.promise = "resolved" /\ sched.promise = "pending"
                     THEN "finally" ELSE procPc
  /\ UNCHANGED <<env, payload, other, callRet, controller, aborted, srcClient, cancelRet>>

\* the .finally callback attached to the wrapper's promise
SchedFinally(i) ==
  /\ sub[i].pc = "returned"
  /\ ~ProcMicro /\ ~ExecCatchPending /\ ~WrapperCatchPending
  /\ LET M1 == [Cur EXCEPT !.sched.active = @ - 1, !.sub[i].pc = "done"]
         M2 == IF aborted /\ M1.sched.active = 0 THEN resolveAllTasksCompleted(M1)
               ELSE IF M1.sched.index < NumSubTasks /\ ~aborted
               THEN launchNextSubTaskIfPossible(M1, aborted)
               ELSE IF M1.sched.active = 0 THEN resolveAllTasksCompleted(M1)
               ELSE M1
     IN /\ Set(M2)
        /\ procPc' = IF M2.sched.promise = "resolved" /\ sched.promise = "pending"
                     THEN "finally" ELSE procPc
  /\ UNCHANGED <<env, payload, other, callRet, controller, aborted, srcClient, cancelRet>>

\* every step but the answer of the key removal
NextButRemoval ==
  \/ Submit
  \/ \E tid \in SubmittedIds : cancelTransferTask(tid, task.userId)
  \/ \E found \in BOOLEAN : SrcLookupReturn(found)
  \/ SrcLookupReject
  \/ SrcClose
  \/ SrcReady
  \/ SrcError
  \/ ProcAbort
  \/ ProcFinally
  \/ \E i \in SubIds : TargetLookupReturn(i)
  \/ \E i \in SubIds : ProbeReturn(i)
  \/ \E i \in SubIds : TargetCheckReturn(i)
  \/ \E i \in SubIds : MkdirClose(i)
  \/ \E i \in SubIds, ok \in BOOLEAN : MkdirReturn(i, ok)
  \/ \E i \in SubIds : AbortMkdir(i)
  \/ \E i \in SubIds : WrapperCatch(i)
  \/ \E i \in SubIds, ok \in BOOLEAN, left \in BOOLEAN : UploadReturn(i, ok, left)
  \/ \E i \in SubIds : UploadTimerFirst(i)
  \/ \E i \in SubIds, wrote \in BOOLEAN : UploadLateSftp(i, wrote)
  \/ \E i \in SubIds, err \in BOOLEAN : CmdExecCallback(i, err)
  \/ \E i \in SubIds, pct \in DataPercents : CmdData(i, pct)
  \/ \E i \in SubIds, code \in ExitCodes, text \in StderrTexts : CmdClose(i, code, text)
  \/ \E i \in SubIds, text \in StreamErrors : CmdStreamError(i, text)
  \/ \E i \in SubIds : CmdTimeout(i)
  \/ \E i \in SubIds : AbortCmd(i)
  \/ \E i \in SubIds : SchedFinally(i)

Next ==
  \/ NextButRemoval
  \/ \E i \in SubIds, ok \in BOOLEAN : DeleteReturn(i, ok)

\* more targets than scheduler slots: the first target is reachable (key auth,
\* rsync), the others have no record
KEnvTargets ==
  [k \in 1..KTargets |-> IF k = 1 THEN Target("ok", "key", TRUE)
                         ELSE Target("missing", "password", FALSE)]

InitK ==
  /\ payload = [connectionIds |-> ConnSeq(KTargets), sourceItems |-> ItemSeq(1),
                transferMethod |-> "auto"]
  /\ env = [src |-> SourceTools(TRUE, TRUE, TRUE), targets |-> KEnvTargets]
  /\ InitRest

SpecK == InitK /\ [][Next]_vars

Spec == Init /\ [][Next]_vars

\* a task that is never cancelled: no cancelTransferTask call, so no abort
\* listener ever runs, and every remote operation answers: the mkdir client
\* emits 'ready' or 'error' before it closes.  Returns collects what follows the opening of the source
\* connection: the callbacks of the remote operations of the sub-tasks and the
\* continuations that follow them; with every remote operation returning or
\* timing out, a ready one eventually runs.
Returns ==
  \/ ProcFinally
  \/ \E i \in SubIds : TargetLookupReturn(i)
  \/ \E i \in SubIds : ProbeReturn(i)
  \/ \E i \in SubIds : TargetCheckReturn(i)
  \/ \E i \in SubIds, ok \in BOOLEAN : MkdirReturn(i, ok)
  \/ \E i \in SubIds, ok \in BOOLEAN, left \in BOOLEAN : UploadReturn(i, ok, left)
  \/ \E i \in SubIds : UploadTimerFirst(i)
  \/ \E i \in SubIds, err \in BOOLEAN : CmdExecCallback(i, err)
  \/ \E i \in SubIds, code \in ExitCodes, text \in StderrTexts : CmdClose(i, code, text)
  \/ \E i \in SubIds : CmdTimeout(i)
  \/ \E i \in SubIds, ok \in BOOLEAN : DeleteReturn(i, ok)
  \/ \E i \in SubIds : SchedFinally(i)

NextLive ==
  \/ Submit
  \/ \E found \in BOOLEAN : SrcLookupReturn(found)
  \/ SrcLookupReject
  \/ SrcClose
  \/ SrcReady
  \/ SrcError
  \/ \E i \in SubIds, wrote \in BOOLEAN : UploadLateSftp(i, wrote)
  \/ \E i \in SubIds, pct \in DataPercents : CmdData(i, pct)
  \/ \E i \in SubIds, text \in StreamErrors : CmdStreamError(i, text)
  \/ Returns

\* requests of one item for up to MaxTargets targets
InitLive ==
  /\ payload \in Requests(MaxTargets, 1, MaxSubTasks, {"auto"})
  /\ env = [src |-> SourceTools(TRUE, TRUE, TRUE),
            targets |-> MainTargets(Len(payload.connectionIds))]
  /\ InitRest

SpecLive == InitLive /\ [][NextLive]_vars /\ WF_vars(Returns)

(* ---------------- timers and continuations always run ---------------- *)
BoundedTargets == 2

\* the 30 s timer of the key upload fires (or the upload fails before)
UploadTimeout(i) ==
  i \in SubIds /\ (UploadTimerFirst(i) \/ \E left \in BOOLEAN : UploadReturn(i, FALSE, left))

\* the command's timer, for a sub-task of the task
CommandTimeout(i) == i \in SubIds /\ CmdTimeout(i)

\* promise continuations: they run as soon as the running callback has returned
Continuations ==
  \/ ProcAbort
  \/ ProcFinally
  \/ \E i \in SubIds : AbortMkdir(i)
  \/ \E i \in SubIds : AbortCmd(i)
  \/ \E i \in SubIds : WrapperCatch(i)
  \/ \E i \in SubIds : SchedFinally(i)

\* two targets (password auth; key auth) and one item
InitBounded ==
  /\ payload = [connectionIds |-> ConnSeq(BoundedTargets), sourceItems |-> ItemSeq(1),
                transferMethod |-> "auto"]
  /\ env = [src |-> SourceTools(TRUE, TRUE, TRUE), targets |-> MainTargets(BoundedTargets)]
  /\ InitRest

\* a timer that was started fires unless it is cleared, a ready continuation
\* runs; nothing is assumed about when, or whether, a remote operation answers
SpecBounded ==
  /\ InitBounded /\ [][Next]_vars
  /\ WF_vars(Continuations)
  /\ \A i \in 1..BoundedTargets : WF_vars(UploadTimeout(i)) /\ WF_vars(CommandTimeout(i))

(* ----------------------- two callers, two tasks ----------------------- *)
\* initiateNewTransfer by a caller for one target and one item while the
\* registry has no second entry; its processTransferTask runs up to the await
\* of the source lookup, which stays pending
SubmitOther(uid) ==
  /\ other.task = NoTask
  /\ LoopIdle
  /\ LET newTask == [userId |-> uid, status |-> "queued", overallProgress |-> Undef,
                     subTasks |-> CrossProduct(ConnSeq(1), ItemSeq(1), 1)]
         t == updateOverallTaskStatus(newTask, "in-progress")
     IN /\ other' = [task |-> t, controller |-> TRUE, aborted |-> FALSE,
                     first |-> task = NoTask]
        /\ callRet' = [NoCall EXCEPT !.op = "submit", !.tid = OtherTaskId, !.uid = uid,
                                     !.task = t, !.n = callRet.n]
  /\ UNCHANGED <<env, payload, task, controller, aborted, procPc, srcClient, sched, sub,
                 cancelRet>>

\* { ...task, subTasks: task.subTasks.map(st => ({ ...st })) }
Snapshot(t) ==
  [userId |-> t.userId, status |-> t.status, overallProgress |-> t.overallProgress,
   subTasks |-> [i \in DOMAIN t.subTasks |-> t.subTasks[i]]]

\* Array.from(transferTasks.values()): insertion order
RegistryValues ==
  LET a == IF task = NoTask THEN << >> ELSE <<task>>
      b == IF other.task = NoTask THEN << >> ELSE <<other.task>>
  IN IF other.first THEN b \o a ELSE a \o b

\* filter that keeps every task
OwnedByAnyone(uid, t) == TRUE

OwnedBy(uid, t) == t.userId = uid

getTransferTaskDetails(tid, uid) ==
  /\ LoopIdle
  /\ LET t == Lookup(tid)
     IN callRet' = [NoCall EXCEPT !.op = "get", !.tid = tid, !.uid = uid,
                                 !.task = IF t # NoTask /\ t.userId = uid
                                          THEN Snapshot(t) ELSE NoTask,
                                 !.n = 1 - callRet.n]
  /\ UNCHANGED <<env, payload, other, task, controller, aborted, procPc, srcClient, sched, sub,
                 cancelRet>>

getAllTransferTasks(uid) ==
  /\ LoopIdle
  /\ LET own == SelectSeq(RegistryValues, LAMBDA t : OwnedBy(uid, t))
     IN callRet' = [NoCall EXCEPT !.op = "list", !.uid = uid,
                                 !.list = [k \in DOMAIN own |-> Snapshot(own[k])],
                                 !.n = 1 - callRet.n]
  /\ UNCHANGED <<env, payload, other, task, controller, aborted, procPc, srcClient, sched, sub,
                 cancelRet>>

Callers == {OwnerId, OtherOwnerId}
CallIds == {TaskId, OtherTaskId, UnknownTaskId}

NextOwners ==
  \/ Next
  \/ \E uid \in Callers : SubmitOther(uid)
  \/ \E tid \in CallIds, uid \in Callers : cancelTransferTask(tid, uid)

NextReads ==
  \/ Next
  \/ \E uid \in Callers : SubmitOther(uid)
  \/ \E tid \in CallIds, uid \in Callers : getTransferTaskDetails(tid, uid)
  \/ \E uid \in Callers : getAllTransferTasks(uid)

\* at most one target (key auth, rsync) and one item for the task of OwnerId
InitOwners ==
  /\ payload \in Requests(1, 1, 1, {"auto"})
  /\ env = [src |-> SourceTools(TRUE, TRUE, TRUE),
            targets |-> [k \in 1..Len(payload.connectionIds) |-> Target("ok", "key", TRUE)]]
  /\ InitRest

SpecOwners == InitOwners /\ [][NextOwners]_vars

SpecReads == InitOwners /\ [][NextReads]_vars

(* ------------- more commands than slots, slow transfers --------------- *)
StreamTargets == MAX_CONCURRENT_SUB_TASKS + 1

\* sub-task i awaits the answer to a lookup, a probe, the target check, the
\* mkdir or the exec request of its command
AwaitsAnswer(i) ==
  \/ sub[i].pc \in {"t_lookup", "probe_sshpass", "probe_rsync", "probe_scp", "t_check", "mkdir",
                   "mkdir_closed"}
  \/ sub[i].stream = "pending"

\* the requests are answered in the order of the sub-tasks
Turn(i) == AwaitsAnswer(i) /\ \A j \in 1..(i - 1) : ~AwaitsAnswer(j)

\* every target is known, uses password auth and has no rsync (scp is used)
InitStreams ==
  /\ payload = [connectionIds |-> ConnSeq(StreamTargets), sourceItems |-> ItemSeq(1),
                transferMethod |-> "auto"]
  /\ env = [src |-> SourceTools(TRUE, TRUE, TRUE),
            targets |-> [k \in 1..StreamTargets |-> Target("ok", "password", FALSE)]]
  /\ InitRest

\* no cancel and no failing remote operation: every sub-task gets to its
\* command, which ends by its close (exit code 0) or by its timer
NextStreams ==
  \/ Submit
  \/ SrcLookupReturn(TRUE)
  \/ SrcReady
  \/ ProcFinally
  \/ \E i \in SubIds : Turn(i) /\ TargetLookupReturn(i)
  \/ \E i \in SubIds : Turn(i) /\ ProbeReturn(i)
  \/ \E i \in SubIds : Turn(i) /\ TargetCheckReturn(i)
  \/ \E i \in SubIds : Turn(i) /\ MkdirReturn(i, TRUE)
  \/ \E i \in SubIds : Turn(i) /\ CmdExecCallback(i, FALSE)
  \/ \E i \in SubIds : CmdClose(i, 0, << >>)
  \/ \E i \in SubIds : CmdTimeout(i)
  \/ \E i \in SubIds : SchedFinally(i)

SpecStreams == InitStreams /\ [][NextStreams]_vars

(* ------------------- two items, one or two names ---------------------- *)
\* a file and a directory with different paths, named alike or not
ItemPairs ==
  {<<[name |-> 1, path |-> 1, type |-> "file"], [name |-> nm, path |-> 2, type |-> "directory"]>> :
     nm \in {1, 2}}

\* one target (key auth, rsync) and two items
InitItems ==
  /\ \E items \in ItemPairs :
       payload = [connectionIds |-> ConnSeq(1), sourceItems |-> items, transferMethod |-> "auto"]
  /\ env = [src |-> SourceTools(TRUE, TRUE, TRUE), targets |-> <<Target("ok", "key", TRUE)>>]
  /\ InitRest

SpecItems == InitItems /\ [][Next]_vars

(* ------------- one sub-task, every tool and credential case ----------- *)
Methods == {"auto", "rsync", "scp"}

\* one target and one item; any preference, any set of tools on the source,
\* any auth kind and either rsync answer on the target
InitTools ==
  /\ payload \in {r \in Requests(1, 1, 1, Methods) :
                    Len(r.connectionIds) = 1 /\ Len(r.sourceItems) = 1}
  /\ \E sp \in BOOLEAN, rs \in BOOLEAN, sc \in BOOLEAN, a \in AuthKinds, rt \in BOOLEAN :
       env = [src |-> SourceTools(sp, rs, sc), targets |-> <<Target("ok", a, rt)>>]
  /\ InitRest

SpecTools == InitTools /\ [][Next]_vars

\* a source host on which a removal issued over an open control connection
\* succeeds and one issued over a closed connection fails
NextRemoval ==
  \/ NextButRemoval
  \/ \E i \in SubIds : DeleteReturn(i, srcClient = "open")

SpecRemoval == Init /\ [][NextRemoval]_vars

SpecToolsRemoval == InitTools /\ [][NextRemoval]_vars

(* --------------------- the roll-up on its own ------------------------- *)
SubStatuses == {"queued", "connecting", "transferring", "completed", "failed", "cancelled"}
TaskStatuses == {"queued", "in-progress", "completed", "failed", "partially-completed",
                 "cancelling", "cancelled"}

\* a sub-task in status st with the progress the code stored on the way there
SubTaskIn(st) ==
  [connectionId |-> 1, sourceItemName |-> 1, status |-> st,
   progress |-> IF st = "completed" THEN 100 ELSE IF st = "transferring" THEN 10 ELSE Undef,
   message |-> NoMsg, transferMethodUsed |-> "none"]

\* a registered task with up to MaxRollup sub-tasks in any statuses
InitRollup ==
  /\ \E n \in 0..MaxRollup, ts \in TaskStatuses :
       \E sts \in [1..n -> SubStatuses] :
         task = [userId |-> OwnerId, status |-> ts, overallProgress |-> Undef,
                 subTasks |-> [k \in 1..n |-> SubTaskIn(sts[k])]]
  /\ payload = [connectionIds |-> ConnSeq(1), sourceItems |-> ItemSeq(NumSubTasks),
                transferMethod |-> "auto"]
  /\ env = [src |-> SourceTools(TRUE, TRUE, TRUE), targets |-> MainTargets(1)]
  /\ controller = TRUE
  /\ aborted = FALSE
  /\ procPc = "sched"
  /\ srcClient = "open"
  /\ sched = [active |-> 0, index |-> 0, promise |-> "pending"]
  /\ sub = [i \in 1..NumSubTasks |-> NoLocals]
  /\ cancelRet = [ret |-> "none", tid |-> 0, uid |-> 0, before |-> "none", known |-> FALSE,
                  n |-> 0]
  /\ other = NoOther
  /\ callRet = NoCall

RollUp ==
  /\ task' = updateOverallTaskStatusBasedOnSubTasks(task)
  /\ UNCHANGED <<env, payload, other, callRet, controller, aborted, procPc, srcClient, sched,
                 sub, cancelRet>>

NextRollup == RollUp

SpecRollup == InitRollup /\ [][NextRollup]_vars

(* --------------- updateSubTaskStatus calls on their own --------------- *)
UpdateProgress == {Undef, 250}
UpdateCalls == 2

\* a call updateSubTaskStatus(TaskId, i, st, p) on a registered task, one call
\* after the other; the call and the number of calls so far are kept in callRet
UpdateCall ==
  /\ callRet.n < UpdateCalls
  /\ \E i \in SubIds, st \in SubStatuses, p \in UpdateProgress :
       /\ task' = updateSubTaskStatus(task, i, st, p, NoMsg)
       /\ callRet' = [NoCall EXCEPT !.op = "updateSubTaskStatus", !.tid = i,
                                    !.list = <<st, p>>, !.n = callRet.n + 1]
  /\ UNCHANGED <<env, payload, other, controller, aborted, procPc, srcClient, sched, sub,
                 cancelRet>>

NextUpdate == UpdateCall

SpecUpdate == InitRollup /\ [][NextUpdate]_vars

(* ------------------------------ claims -------------------------------- *)
ActiveStatus == {"connecting", "transferring"}
\* the wrapper of sub-task i has been launched and has not returned yet
InFlight(i) == sub[i].pc \notin {"idle", "returned", "done"}
Finished == procPc = "done"

\* C1: after a cancel that returned true for a task that was not yet completed,
\* failed or partially-completed, the task is 'cancelled' once processing finished.
C1_CancelledWhenFinished ==
  (Finished /\ cancelRet.ret = "true" /\ cancelRet.before \notin TaskFinal)
    => task.status = "cancelled"

\* C2: the scheduler's completion promise settles only when no launched
\* sub-task execution is still running.
C2_SettlesOnlyWhenDrained ==
  [][(sched.promise = "pending" /\ sched'.promise \in {"resolved", "rejected"})
       => sched'.active = 0]_vars

\* C3: a key file uploaded for a sub-task is gone from the source host at the
\* moment the sub-task's execution returns, on a host where a removal over
\* the open control connection succeeds.
C3_NoKeyLeftBehind ==
  \A i \in DOMAIN sub : sub[i].pc = "returned" => ~sub[i].keyOnHost

\* C4: the control connection is closed only after every launched sub-task
\* execution has returned.
C4_ClosedOnlyAfterAllReturned ==
  srcClient = "closed" => \A i \in DOMAIN sub : ~InFlight(i)

\* C5: at most MAX_CONCURRENT_SUB_TASKS sub-tasks are connecting or transferring,
\* and the in-flight counter never exceeds MAX_CONCURRENT_SUB_TASKS.
C5_ConcurrencyBound ==
  /\ sched.active <= MAX_CONCURRENT_SUB_TASKS
  /\ Cardinality({i \in SubIds : task.subTasks[i].status \in ActiveStatus})
       <= MAX_CONCURRENT_SUB_TASKS

C5_Witness ==
  /\ sched.active = MAX_CONCURRENT_SUB_TASKS
  /\ Cardinality({i \in SubIds : task.subTasks[i].status \in ActiveStatus})
       = MAX_CONCURRENT_SUB_TASKS
  /\ NumSubTasks > MAX_CONCURRENT_SUB_TASKS
  /\ sched.index = MAX_CONCURRENT_SUB_TASKS + 1
  /\ \E i \in SubIds : task.subTasks[i].status = "failed"

\* C6: once a sub-task is completed, failed or cancelled, no later update
\* changes its status.
C6_SubTaskFinalIsFinal ==
  [][\A i \in DOMAIN sub :
       task.subTasks[i].status \in SubFinal
         => task'.subTasks[i].status = task.subTasks[i].status]_vars

\* C7: once the task is completed, failed or partially-completed, no later step
\* sets its status to queued or in-progress.
C7_TaskFinalNotTransient ==
  [][task.status \in TaskFinal => task'.status \notin {"queued", "in-progress"}]_vars

\* roll-up table of section 4.1 of the specification
Rollup41(subs) ==
  LET n == Len(subs)
      completed == CountStatus(subs, {"completed"})
      failed == CountStatus(subs, {"failed"})
      active == CountStatus(subs, ActiveStatus)
      queued == CountStatus(subs, {"queued"})
  IN IF failed = n THEN "failed"
     ELSE IF completed = n THEN "completed"
     ELSE IF failed > 0 /\ completed + failed = n THEN "partially-completed"
     ELSE IF active > 0 \/ (queued > 0 /\ (failed > 0 \/ completed > 0)) THEN "in-progress"
     ELSE IF queued = n THEN "queued"
     ELSE "partially-completed"

\* C8: in every state of a task with at least one sub-task the
\* stored status equals the roll-up of section 4.1 of the sub-task statuses.
C8_StatusAlwaysRollup ==
  (task # NoTask /\ NumSubTasks >= 1) => task.status = Rollup41(task.subTasks)

\* C9: if preparing the source connection fails without a cancel, every
\* sub-task and the task end failed.
C9_SourceFailureFailsAll ==
  (Finished /\ sched.promise = "none" /\ ~aborted)
    => /\ task.status = "failed"
       /\ \A i \in SubIds : task.subTasks[i].status = "failed"

\* C10: when processing has finished, the task's status is completed, failed,
\* partially-completed or cancelled and every sub-task is completed, failed or
\* cancelled.
C10_TerminalWhenFinished ==
  Finished => /\ task.status \in TaskFinal \cup {"cancelled"}
              /\ \A i \in SubIds : task.subTasks[i].status \in SubFinal

\* C11: the task has exactly one sub-task per (target, item) pair of the request,
\* targets outermost, and neither the length of the list nor the pair of a
\* sub-task changes after submit.
C11_OneSubTaskPerPair ==
  task # NoTask =>
    LET conns == payload.connectionIds
        items == payload.sourceItems
    IN /\ Len(task.subTasks) = Len(conns) * Len(items)
       /\ \A c \in 1..Len(conns), j \in 1..Len(items) :
            LET st == task.subTasks[(c - 1) * Len(items) + j]
            IN st.connectionId = conns[c] /\ st.sourceItemName = items[j].name

C11_Witness ==
  /\ Len(payload.sourceItems) = 2
  /\ NumSubTasks = 2
  /\ Finished
  /\ aborted
  /\ \E i \in SubIds : task.subTasks[i].status = "completed"
  /\ \E i \in SubIds : task.subTasks[i].status = "cancelled"

ExpectedFinal ==
  LET n == NumSubTasks
      completed == CountStatus(task.subTasks, {"completed"})
      failed == CountStatus(task.subTasks, {"failed"})
  IN IF completed = n THEN "completed"
     ELSE IF failed = n THEN "failed"
     ELSE "partially-completed"

\* C12: in a task that is never cancelled and has at least one sub-task, once
\* the source control connection is open processing eventually finishes with
\* every sub-task completed or failed and the task completed (all completed),
\* failed (all failed) or partially-completed (both occur).
C12_EventuallyFinished ==
  (srcClient = "open" /\ NumSubTasks >= 1)
    ~> (/\ Finished
        /\ \A i \in SubIds : task.subTasks[i].status \in {"completed", "failed"}
        /\ task.status = ExpectedFinal)

C12_Witness ==
  /\ Finished
  /\ ~aborted
  /\ task.status = "partially-completed"
  /\ \E i \in SubIds : task.subTasks[i].status = "completed"
  /\ \E i \in SubIds : task.subTasks[i].status = "failed"

\* processSingleSubTaskWrapper has been called for sub-task i
Launched(i) == sub[i].pc # "idle"

\* a step launches sub-task i only if it was never launched before and every
\* sub-task before it in the list is launched by then
LaunchStepInOrder ==
  \A i \in DOMAIN sub :
    /\ Launched(i) => sub'[i].pc # "idle"
    /\ (sub'[i].pc = "t_lookup" /\ sub[i].pc # "t_lookup") => sub[i].pc = "idle"
    /\ (sub[i].pc = "idle" /\ sub'[i].pc # "idle") => \A j \in 1..(i - 1) : sub'[j].pc # "idle"

\* C13 (as claimed): sub-tasks are launched in list order, none more than once,
\* and when processing of a task that was never cancelled has finished every
\* sub-task has been launched.
C13_AllLaunchedUnlessCancelled ==
  /\ [][LaunchStepInOrder]_vars
  /\ []((Finished /\ ~aborted) => \A i \in SubIds : Launched(i))

\* C13 (amended): sub-tasks are launched in list order, none more than once,
\* and when processing of a task that was never cancelled and whose source
\* control connection opened has finished every sub-task has been launched.
C13_AllLaunchedOnceSourceOpen ==
  /\ [][LaunchStepInOrder]_vars
  /\ []((Finished /\ ~aborted /\ sched.promise # "none") => \A i \in SubIds : Launched(i))

C13_Witness ==
  /\ NumSubTasks > MAX_CONCURRENT_SUB_TASKS
  /\ ~aborted
  /\ sub[NumSubTasks].pc = "t_lookup"
  /\ \E j \in SubIds : task.subTasks[j].status = "failed"
  /\ \E j \in SubIds : j < NumSubTasks /\ InFlight(j)

\* C14: an execution that chose a temporary key path returns or rethrows only
\* from the pending removal of that path (deleteFileOnSourceViaSftp was called),
\* whatever the outcome of the upload, the command or a cancel.
C14_RemovalAttemptBeforeReturn ==
  [][\A i \in DOMAIN sub :
       (sub[i].keyPath /\ sub'[i].pc = "returned") => sub[i].pc = "del"]_vars

C14_Witness ==
  \E i \in SubIds : /\ sub[i].pc = "del"
                     /\ sub[i].after = "abort"
                     /\ aborted
                     /\ sub[i].keyOnHost

\* position of a sub-task status in queued -> connecting -> transferring -> final
Rank(st) ==
  IF st = "queued" THEN 0 ELSE IF st = "connecting" THEN 1
  ELSE IF st = "transferring" THEN 2 ELSE 3

\* C15: no step moves a sub-task's status backwards in the order
\* queued -> connecting -> transferring -> {completed, failed, cancelled}.
C15_SubTaskNeverBackwards ==
  [][\A i \in DOMAIN sub :
       Rank(task'.subTasks[i].status) >= Rank(task.subTasks[i].status)]_vars

C15_Witness ==
  \E i \in SubIds : /\ task.subTasks[i].status = "cancelled"
                     /\ sub[i].stream = "open"
                     /\ task.subTasks[i].progress = 100

\* C16: where cancelTransferTask returns true, a second call right after the
\* first (the controller is still registered, so it returns true as well)
\* leaves the task and its sub-tasks as the first call left them.
C16_CancelTwiceAsOnce ==
  (task # NoTask /\ controller) => CancelUpdates(CancelUpdates(task)) = CancelUpdates(task)

\* a step of a cancelTransferTask call that returned true
CancelTrueStep == cancelRet'.n # cancelRet.n /\ cancelRet'.ret = "true"

\* C17: a cancelTransferTask call that returns true leaves every sub-task that
\* was queued, connecting or transferring cancelled, and every completed or
\* failed sub-task with its status, progress and message.
C17_CancelFrame ==
  [][CancelTrueStep =>
       \A i \in DOMAIN sub :
         /\ task.subTasks[i].status \in {"queued", "connecting", "transferring"}
              => task'.subTasks[i].status = "cancelled"
         /\ task.subTasks[i].status \in {"completed", "failed"}
              => task'.subTasks[i] = task.subTasks[i]]_vars

C17_Witness ==
  /\ cancelRet.ret = "true"
  /\ ProcMicro
  /\ \E i \in SubIds : task.subTasks[i].status = "completed" /\ task.subTasks[i].progress = 100
  /\ \E i \in SubIds : task.subTasks[i].status = "cancelled" /\ task.subTasks[i].progress = 10

\* C18: a cancelTransferTask call that returns true for a task with at least one
\* sub-task whose status was queued or in-progress leaves the status cancelling.
C18_CancellingOnReturn ==
  [][(CancelTrueStep /\ task.status \in {"queued", "in-progress"} /\ NumSubTasks >= 1)
       => task'.status = "cancelling"]_vars

\* C19: from a state where the task is completed, failed or partially-completed
\* no step (the cancel call, the catch block it triggers) sets the status to
\* cancelling or cancelled.
C19_FinalNeverCancelling ==
  [][task.status \in TaskFinal => task'.status \notin {"cancelling", "cancelled"}]_vars

\* C20: cancelTransferTask returns false only for a task id that is not in the
\* registry or a task owned by another user.
C20_FalseOnlyIfUnknownOrForeign ==
  cancelRet.ret = "false" => ~cancelRet.known

\* a step of a cancelTransferTask call
CancelStep == cancelRet'.n # cancelRet.n

\* the entry of TaskId: task, controller, signal, processing and executions
MainEntry == <<task, controller, aborted, procPc, srcClient, sched, sub>>

\* C21: a cancelTransferTask call for an unknown task id or by a caller that
\* does not own the task returns false and changes no task, no sub-task and no
\* signal; a call for one task leaves the other task and its signal as they were.
C21_ForeignCancelChangesNothing ==
  [][CancelStep =>
       /\ (Lookup(cancelRet'.tid) = NoTask \/ Lookup(cancelRet'.tid).userId # cancelRet'.uid)
            => cancelRet'.ret = "false" /\ UNCHANGED <<MainEntry, other>>
       /\ cancelRet'.tid = TaskId => UNCHANGED other
       /\ cancelRet'.tid = OtherTaskId => UNCHANGED MainEntry]_vars

C21_Witness ==
  /\ cancelRet.ret = "false"
  /\ cancelRet.tid = TaskId
  /\ cancelRet.uid = OtherOwnerId
  /\ controller /\ ~aborted
  /\ task.status = "in-progress"
  /\ \E i \in SubIds : task.subTasks[i].status = "transferring" /\ sub[i].stream = "open"
  /\ other.task # NoTask /\ other.aborted

\* the rows of the claimed roll-up, "none" where no row applies
RollupRows(subs) ==
  LET n == Len(subs)
      completed == CountStatus(subs, {"completed"})
      failed == CountStatus(subs, {"failed"})
      active == CountStatus(subs, ActiveStatus)
      queued == CountStatus(subs, {"queued"})
  IN IF failed = n THEN "failed"
     ELSE IF completed = n THEN "completed"
     ELSE IF failed > 0 /\ completed + failed = n THEN "partially-completed"
     ELSE IF active > 0 \/ (queued > 0 /\ (completed > 0 \/ failed > 0)) THEN "in-progress"
     ELSE IF queued = n THEN "queued"
     ELSE "none"

\* C22: for sub-tasks that are queued, connecting, transferring, completed or
\* failed the roll-up sets the status the five rows give (one of them always
\* applies); with no sub-tasks it leaves the status as it was.
C22_RollupTable ==
  [][(\A k \in DOMAIN task.subTasks : task.subTasks[k].status # "cancelled")
       => task'.status = IF NumSubTasks = 0 THEN task.status
                         ELSE RollupRows(task.subTasks)]_vars

C22_Witness ==
  /\ task.overallProgress # Undef
  /\ NumSubTasks = 3
  /\ task.subTasks[1].status = "completed"
  /\ task.subTasks[2].status = "queued"
  /\ task.subTasks[3].status = "failed"
  /\ task.status = "in-progress"

\* C23: where none of the five rows applies, the roll-up sets the status to
\* partially-completed.
C23_FallbackPartiallyCompleted ==
  [][(NumSubTasks >= 1 /\ RollupRows(task.subTasks) = "none")
       => task'.status = "partially-completed"]_vars

\* the stream of the command of sub-task i closes in this step
CloseStep(i) == sub[i].stream = "open" /\ sub'[i].stream = "closed"

\* a text without the blanks at its two ends
Stripped(t) ==
  LET idx == {k \in DOMAIN t : t[k] # " "}
  IN IF idx = {} THEN << >>
     ELSE SubSeq(t, CHOOSE a \in idx : \A k \in idx : a <= k,
                    CHOOSE b \in idx : \A k \in idx : b >= k)

\* C24 (as claimed): when the stream of a command closes in a task that was
\* not cancelled, exit code 0 leaves the sub-task completed with progress 100
\* and a nonzero exit code leaves it failed with a message that holds the exit
\* code and the trimmed standard-error text.
C24_CloseSetsOutcome ==
  [][\A i \in DOMAIN sub :
       (CloseStep(i) /\ ~aborted) =>
         LET st == task'.subTasks[i] IN
         IF sub'[i].exit = 0 THEN st.status = "completed" /\ st.progress = 100
         ELSE /\ st.status = "failed"
              /\ st.message.code = sub'[i].exit
              /\ st.message.text = Stripped(sub'[i].stderr)]_vars

\* C24 (amended): the same, the nonzero case for a command that is still
\* awaited (its 5 min timer has not fired).
C24_CloseSetsOutcomeWhileAwaited ==
  [][\A i \in DOMAIN sub :
       (CloseStep(i) /\ ~aborted) =>
         LET st == task'.subTasks[i] IN
         IF sub'[i].exit = 0 THEN st.status = "completed" /\ st.progress = 100
         ELSE sub[i].pc = "cmd" =>
                /\ st.status = "failed"
                /\ st.message.code = sub'[i].exit
                /\ st.message.text = Stripped(sub'[i].stderr)]_vars

C24_Witness ==
  /\ ~aborted
  /\ \E i \in SubIds : /\ sub[i].stream = "closed" /\ sub[i].exit = 2
                       /\ task.subTasks[i].status = "failed"
                       /\ task.subTasks[i].message.kind = "failed. Code, Stderr"
                       /\ task.subTasks[i].message.text = <<"x", " ", "y">>
  /\ \E i \in SubIds : /\ sub[i].stream = "closed" /\ sub[i].exit = 0
                       /\ task.subTasks[i].status = "completed"

\* C25: the task returned by initiateNewTransfer has status queued and all
\* its sub-tasks have status queued.
C25_SubmitReturnsQueued ==
  callRet.op = "submit" =>
    /\ callRet.task.status = "queued"
    /\ \A k \in DOMAIN callRet.task.subTasks : callRet.task.subTasks[k].status = "queued"

\* what a sub-task adds to the mean as claimed: 0 when failed, 100 when
\* completed, otherwise its stored progress (where none is stored: 5 while
\* connecting, else 0)
ClaimedShare(st) ==
  IF st.status = "failed" THEN 0
  ELSE IF st.status = "completed" THEN 100
  ELSE IF st.progress # Undef THEN st.progress
  ELSE IF st.status = "connecting" THEN 5 ELSE 0

RECURSIVE ClaimedTotal(_)
ClaimedTotal(subs) ==
  IF subs = << >> THEN 0 ELSE ClaimedShare(Head(subs)) + ClaimedTotal(Tail(subs))

\* the step is an updateSubTaskStatus call that is not ignored (the sub-task
\* it names is not completed or failed, or the new status is one of the two),
\* so it ends with a roll-up
AppliedUpdateStep ==
  /\ callRet'.n # callRet.n
  /\ callRet'.op = "updateSubTaskStatus"
  /\ ~(/\ task.subTasks[callRet'.tid].status \in {"completed", "failed"}
        /\ callRet'.list[1] \notin {"completed", "failed"})

\* C26: after every roll-up of a task with sub-tasks the overall progress is
\* the rounded mean of the sub-tasks' shares (failed 0, completed 100, any
\* other its stored progress) and lies within 0..100.
C26_ProgressIsMean ==
  [][AppliedUpdateStep =>
       /\ task'.overallProgress = RoundDiv(ClaimedTotal(task'.subTasks), NumSubTasks)
       /\ task'.overallProgress \in 0..100]_vars

\* a step of a getTransferTaskDetails or getAllTransferTasks call
ReadStep == callRet'.n # callRet.n

\* the registry as it would be without the tasks of users other than uid
OwnTasks(uid) == SelectSeq(RegistryValues, LAMBDA t : t.userId = uid)

\* C27: getTransferTaskDetails returns null for a task of another owner,
\* getAllTransferTasks returns no such task, both return exactly what they
\* would return if the tasks of other users did not exist, and neither changes
\* a task, a sub-task, a signal or the processing state.
C27_ReadsSeeOwnTasksOnly ==
  [][ReadStep =>
       LET r == callRet' IN
       /\ UNCHANGED <<MainEntry, other, cancelRet>>
       /\ r.op = "get" =>
            /\ Lookup(r.tid).userId # r.uid => r.task = NoTask
            /\ r.task = (IF \E k \in DOMAIN OwnTasks(r.uid) : OwnTasks(r.uid)[k] = Lookup(r.tid)
                         THEN Lookup(r.tid) ELSE NoTask)
       /\ r.op = "list" =>
            /\ \A k \in DOMAIN r.list : r.list[k].userId = r.uid
            /\ r.list = OwnTasks(r.uid)]_vars

C27_Witness ==
  /\ callRet.op = "list"
  /\ callRet.uid = OwnerId
  /\ Len(callRet.list) = 1
  /\ callRet.list[1].status = "in-progress"
  /\ task # NoTask
  /\ other.task # NoTask /\ other.task.userId = OtherOwnerId /\ other.first

\* C28: once the signal has fired no step takes a sub-task from queued to
\* connecting, and a sub-task that was not launched by then is never executed:
\* no lookup, probe, directory creation, key upload or command is started for it.
C28_NoLaunchAfterAbort ==
  [][aborted =>
       \A i \in DOMAIN sub :
         /\ ~(task.subTasks[i].status = "queued" /\ task'.subTasks[i].status = "connecting")
         /\ sub[i].pc = "idle" =>
              /\ sub'[i].pc \in {"idle", "returned"}
              /\ sub'[i].stream = "none" /\ ~sub'[i].keyOnHost]_vars

C28_Witness ==
  /\ aborted
  /\ \E i \in SubIds : sub[i].pc = "idle" /\ task.subTasks[i].status = "cancelled"
  /\ \E j \in SubIds : sub[j].pc = "done" /\ task.subTasks[j].status = "cancelled"
  /\ \E j \in SubIds : InFlight(j)
  /\ sched.active < MAX_CONCURRENT_SUB_TASKS

\* the tool the claimed table gives, "none" where the sub-task is to fail
ExpectedTool(method, rsyncSrc, rsyncTarget, scpSrc) ==
  IF method = "auto"
  THEN (IF rsyncSrc /\ rsyncTarget THEN "rsync" ELSE IF scpSrc THEN "scp" ELSE "none")
  ELSE IF method = "rsync"
  THEN (IF rsyncSrc /\ rsyncTarget THEN "rsync" ELSE "none")
  ELSE (IF scpSrc THEN "scp" ELSE "none")

ExpectedToolOf(i) ==
  ExpectedTool(payload.transferMethod, env.src.rsync, TargetOf(i).rsync, env.src.scp)

\* messages of the failures of the tool selection
CapabilityMsgs ==
  {"Neither Rsync nor SCP available on source", "Rsync preferred but not available on source",
   "Rsync preferred, but not available on target", "SCP preferred but not available on source"}

\* the execution of sub-task i is over
ExecutionOver(i) == sub[i].pc \in {"returned", "done"}

\* C29: a recorded tool is the one the table gives for (preference, rsync on
\* source, rsync on target, scp on source); a sub-task whose command is
\* executed has that tool recorded; where the table gives no tool the sub-task
\* of a task that is not cancelled ends failed with no tool recorded, and a
\* tool-selection failure occurs only there.
C29_ToolSelection ==
  \A i \in SubIds :
    LET st == task.subTasks[i] IN
    /\ st.transferMethodUsed # "none" => st.transferMethodUsed = ExpectedToolOf(i)
    /\ sub[i].stream # "none" =>
         st.transferMethodUsed = ExpectedToolOf(i) /\ ExpectedToolOf(i) # "none"
    /\ (ExpectedToolOf(i) = "none" /\ ExecutionOver(i) /\ ~aborted) =>
         st.status = "failed" /\ st.message.kind \in CapabilityMsgs
    /\ (st.status = "failed" /\ st.message.kind \in CapabilityMsgs) => ExpectedToolOf(i) = "none"

C29_Witness ==
  /\ payload.transferMethod = "auto"
  /\ env.src.rsync /\ env.src.scp
  /\ \E i \in SubIds : /\ ~TargetOf(i).rsync
                       /\ task.subTasks[i].transferMethodUsed = "scp"
                       /\ sub[i].stream = "open"

\* the target uses key auth with a passphrase or password auth (with or without
\* a stored password) and the source host does not have the relay helper
HelperMissing(i) ==
  TargetOf(i).auth \in {"keypass", "password", "password-nopw"} /\ ~env.src.sshpass

SshpassMsgs ==
  {"password auth, sshpass not available", "key has passphrase, sshpass not available"}

\* C30: for a target with password auth, or key auth with a passphrase, and no
\* sshpass on the source host, the transfer command is never executed; once the
\* execution has returned in a task that was not cancelled the sub-task is
\* failed, and if the credential step was reached (target directory ensured,
\* key uploaded) the message names sshpass; at the moment the execution
\* returns no key file is on the source host, on a host where a removal over
\* the open control connection succeeds.
C30_HelperMissingFails ==
  \A i \in SubIds :
    HelperMissing(i) =>
      LET st == task.subTasks[i] IN
      /\ sub[i].stream = "none"
      /\ (ExecutionOver(i) /\ ~aborted) =>
           /\ st.status = "failed"
           /\ (st.progress = 8 /\ st.message.kind # "key upload failed")
                => st.message.kind \in SshpassMsgs
      /\ (sub[i].pc = "returned" /\ ~aborted) => ~sub[i].keyOnHost

\* C31: a sub-task whose target directory could not be created is failed and
\* its execution is over: no key file was or is uploaded for it and its
\* transfer command is never started.
C31_MkdirFailureStopsSubTask ==
  \A i \in SubIds :
    task.subTasks[i].message.kind = "Failed to create target directory" =>
      /\ task.subTasks[i].status = "failed"
      /\ ExecutionOver(i)
      /\ sub[i].stream = "none"
      /\ ~sub[i].keyPath /\ ~sub[i].keyOnHost

C31_Witness ==
  /\ ~aborted
  /\ \E i \in SubIds : /\ TargetOf(i).auth = "key"
                       /\ task.subTasks[i].message.kind = "Failed to create target directory"
                       /\ sub[i].pc = "done"
  /\ \E j \in SubIds : sub[j].stream = "open"

\* the wrapper of sub-task i returns in this step
ReturnStep(i) == InFlight(i) /\ sub'[i].pc = "returned"

\* the .finally callback of sub-task i runs in this step
FinallyStep(i) == sub[i].pc = "returned" /\ sub'[i].pc = "done"

\* C32: the step in which a sub-task's execution returns leaves that sub-task
\* completed (only after exit code 0), failed or cancelled, changes no other
\* sub-task and does not settle the scheduler's promise; in a task that is not
\* cancelled the callback that follows a failed or cancelled sub-task launches
\* the next sub-task of the list if there is one.
C32_ErrorsStayInSubTask ==
  [][\A i \in DOMAIN sub :
       /\ ReturnStep(i) =>
            /\ task'.subTasks[i].status \in SubFinal
            /\ task'.subTasks[i].status = "completed" => sub'[i].exit = 0
            /\ \A j \in DOMAIN sub \ {i} : task'.subTasks[j] = task.subTasks[j]
            /\ sched'.promise = sched.promise
       /\ (FinallyStep(i) /\ ~aborted /\ task.subTasks[i].status \in {"failed", "cancelled"}
             /\ sched.index < NumSubTasks) =>
            /\ sched'.promise # "rejected"
            /\ sched'.index > sched.index
            /\ sub'[sched.index + 1].pc # "idle"]_vars

C32_Witness ==
  /\ ~aborted
  /\ NumSubTasks > MAX_CONCURRENT_SUB_TASKS
  /\ sub[1].pc = "done"
  /\ task.subTasks[1].status = "failed"
  /\ task.subTasks[1].message.kind = "key upload failed"
  /\ sub[NumSubTasks].pc = "t_lookup"
  /\ \A j \in 2..(NumSubTasks - 1) : task.subTasks[j].status = "connecting"
  /\ sched.promise = "pending"

\* sub-task i awaits its key upload or its transfer command
AwaitsUploadOrCommand(i) == i \in SubIds /\ sub[i].pc \in {"upload", "cmd"}

\* C33: a sub-task that awaits its key upload or its transfer
\* command eventually is completed, failed or cancelled with its scheduler slot
\* released, whether or not the upload or the command ever finishes.
C33_BoundedThenSlotReleased ==
  \A i \in 1..BoundedTargets :
    AwaitsUploadOrCommand(i)
      ~> (i \in SubIds /\ task.subTasks[i].status \in SubFinal /\ sub[i].pc = "done")

\* sub-task i is probing the source tools, checking the target, preparing the
\* target directory or brokering the credential
Preparing(i) ==
  sub[i].pc \in {"probe_sshpass", "probe_rsync", "probe_scp", "t_check", "mkdir", "mkdir_closed",
                 "upload"}

\* C34: while its execution probes, prepares the directory or brokers the
\* credential an uncancelled sub-task is connecting, and a sub-task is
\* transferring only while its command is being executed.
C34_TransferringOnlyDuringCommand ==
  \A i \in SubIds :
    /\ (Preparing(i) /\ ~aborted) => task.subTasks[i].status = "connecting"
    /\ task.subTasks[i].status = "transferring" => sub[i].pc = "cmd"

\* the statuses that occur among the sub-tasks
StatusesPresent(subs) == {subs[k].status : k \in DOMAIN subs}

\* what the code's roll-up amounts to, by the statuses that occur: all failed,
\* all completed, only completed and failed, all queued; any other mix
\* (something active, queued next to finished, anything cancelled) is in-progress
StatusForPresent(present) ==
  CASE present = {"failed"} -> "failed"
    [] present = {"completed"} -> "completed"
    [] present = {"completed", "failed"} -> "partially-completed"
    [] present = {"queued"} -> "queued"
    [] OTHER -> "in-progress"

\* C35: when an updateSubTaskStatus call that is applied returns, the first
\* call as well as the one that follows it, the named sub-task has the new
\* status and the task's status is the code's roll-up of the sub-task statuses
\* as they are then, whatever the task's status was before.
C35_UpdateRollsUpSynchronously ==
  [][AppliedUpdateStep =>
       /\ task'.subTasks[callRet'.tid].status = callRet'.list[1]
       /\ task'.status = StatusForPresent(StatusesPresent(task'.subTasks))]_vars

\* a second call has completed the last sub-task of the task
C35_Witness ==
  /\ callRet.op = "updateSubTaskStatus"
  /\ callRet.n = UpdateCalls
  /\ NumSubTasks = 3
  /\ callRet.list = <<"completed", Undef>>
  /\ \A k \in SubIds : task.subTasks[k].status = "completed"
  /\ task.status = "completed"

\* the item of the request that sub-task i was created for
CreatedFor(i) == payload.sourceItems[((i - 1) % Len(payload.sourceItems)) + 1]

\* the source path and the directory flag that buildTransferCommand is given
CommandSource(i) ==
  LET it == payload.sourceItems[sub[i].item]
  IN [path |-> it.path, isDir |-> it.type = "directory"]

\* C36: the command of a sub-task is built for the path and the type of the
\* item the sub-task was created for, also when two items have the same name.
C36_CommandUsesOwnItem ==
  \A i \in SubIds :
    sub[i].pc = "cmd" =>
      CommandSource(i) = [path |-> CreatedFor(i).path,
                          isDir |-> CreatedFor(i).type = "directory"]

\* the sub-tasks whose command was started on the source host and whose
\* stream has not closed
RunningCommands == {i \in SubIds : sub[i].stream = "open"}

\* C37: at most MAX_CONCURRENT_SUB_TASKS transfer commands are running on the
\* source host at any time.
C37_RunningCommandsBounded ==
  Cardinality(RunningCommands) <= MAX_CONCURRENT_SUB_TASKS

\* the executions that were launched and whose wrapper has not returned
ExecutionsInFlight == {i \in SubIds : InFlight(i)}

\* C38: once the scheduler has started and while the task is not cancelled,
\* whenever no continuation is pending either MAX_CONCURRENT_SUB_TASKS
\* executions are in flight or every sub-task has been launched or skipped.
C38_WorkConserving ==
  (sched.promise # "none" /\ ~aborted /\ LoopIdle) =>
    \/ /\ sched.active = MAX_CONCURRENT_SUB_TASKS
       /\ Cardinality(ExecutionsInFlight) = MAX_CONCURRENT_SUB_TASKS
    \/ sched.index = NumSubTasks

C38_Witness ==
  /\ ~aborted /\ LoopIdle
  /\ NumSubTasks > MAX_CONCURRENT_SUB_TASKS
  /\ sched.index = MAX_CONCURRENT_SUB_TASKS
  /\ Cardinality(ExecutionsInFlight) = MAX_CONCURRENT_SUB_TASKS
  /\ sub[1].pc = "cmd" /\ sub[1].stream = "open"

\* C39: a completed sub-task has progress 100, and a completed task has only
\* completed sub-tasks and overall progress 100.
C39_CompletedMeansAllDone ==
  /\ \A i \in SubIds :
       task.subTasks[i].status = "completed" => task.subTasks[i].progress = 100
  /\ (task # NoTask /\ task.status = "completed") =>
       /\ \A i \in SubIds : task.subTasks[i].status = "completed"
       /\ task.overallProgress = 100

C39_Witness ==
  /\ NumSubTasks = 2
  /\ task.status = "completed"
  /\ task.overallProgress = 100
  /\ \A i \in SubIds : task.subTasks[i].status = "completed" /\ sub[i].exit = 0
  /\ procPc = "done"

\* the command options of sub-task i hold an identity file (set once the key
\* upload has returned) or an sshpass prefix (set for a stored password or
\* passphrase once the helper was found)
HasCredentialOption(i) == sub[i].sshIdentityFileOption \/ sub[i].sshPassCommand

\* C40: a command is executed only with a credential option in place, and a
\* sub-task whose target has key auth without a private key, or password auth
\* without a decrypted password, never executes a command.
C40_CommandHasCredential ==
  \A i \in SubIds :
    /\ sub[i].pc = "cmd" => HasCredentialOption(i)
    /\ TargetOf(i).auth \in {"key-nokey", "password-nopw"} => sub[i].stream = "none"

====
